---- MODULE Spec2Model ----
(***************************************************************************)
(* UniSteno: LSB steganography plugins (image, video, audio, text).        *)
(* Each plugin's embed and extract are modelled from src/plugins/*.py at   *)
(* the level of bytes and bits: the frame layout, the capacity check, the  *)
(* password-seeded placement, the unit writes and the parse on extract.    *)
(*                                                                         *)
(* Library primitives the plugins call are replaced by small deterministic *)
(* stand-ins with the same interface and the same algebra:                 *)
(*   hashlib.sha256            -> Sha256 (a 16-bit polynomial hash)        *)
(*   numpy default_rng(seed)   -> a linear congruential generator          *)
(*   Generator.permutation(n)  -> Fisher-Yates over arange(n) driven by it *)
(*   AES-CBC / AES-GCM, PBKDF2 -> additive byte ciphers with the same      *)
(*                                layout, padding and tag check            *)
(* zlib.crc32, base64, UTF-8, unpackbits and packbits are computed as the  *)
(* real functions.                                                         *)
(***************************************************************************)
EXTENDS Integers, Sequences, FiniteSets, TLC

\* ------------------------------------------------------------------ bounds

\* Longest payload (bytes) and longest payload name (bytes) drawn as inputs.
MaxPayloadLen == 1
MaxNameLen == 1

\* A tampering flips one of the first or of the last TamperSpan bits of the
\* payload field (all of it, for an unencrypted payload of the model).
TamperSpan == 8

\* ------------------------------------------------------- sequences, slices

Min(a, b) == IF a < b THEN a ELSE b
Max(a, b) == IF a > b THEN a ELSE b

\* Python's s[a:b] on a sequence, a and b 0-based, clamped to the sequence.
Slice(s, a, b) ==
  LET lo == Min(Max(a, 0), Len(s))
      hi == Min(Max(b, lo), Len(s))
  IN  SubSeq(s, lo + 1, hi)

\* All sequences over S of length at most n.
RECURSIVE SeqsUpTo(_, _)
SeqsUpTo(S, n) ==
  IF n = 0 THEN {<< >>}
  ELSE LET shorter == SeqsUpTo(S, n - 1)
       IN  shorter \cup {Append(s, x) : s \in {t \in shorter : Len(t) = n - 1}, x \in S}

\* --------------------------------------------------------- bits and bytes

\* Bit k (7 = most significant) of byte b.
BitOf(b, k) == (b \div (2 ^ k)) % 2

\* numpy.unpackbits of a uint8 buffer: eight bits per byte, MSB first.
UnpackBits(bytes) ==
  [i \in 1..(8 * Len(bytes)) |-> BitOf(bytes[((i - 1) \div 8) + 1], 7 - ((i - 1) % 8))]

\* numpy.packbits: eight bits per byte, MSB first, the last byte zero-padded.
PackBits(bits) ==
  LET n == (Len(bits) + 7) \div 8
      bitAt(i) == IF i <= Len(bits) THEN bits[i] ELSE 0
  IN  [k \in 1..n |->
         bitAt(8*k - 7) * 128 + bitAt(8*k - 6) * 64 + bitAt(8*k - 5) * 32
       + bitAt(8*k - 4) * 16  + bitAt(8*k - 3) * 8  + bitAt(8*k - 2) * 4
       + bitAt(8*k - 1) * 2   + bitAt(8*k)]

\* int.to_bytes(4, "big") / struct.pack(">I", n), for n < 2^31.
ToBytes4(n) ==
  << (n \div 16777216) % 256, (n \div 65536) % 256, (n \div 256) % 256, n % 256 >>

\* struct.pack(">H", n).
ToBytes2(n) == << (n \div 256) % 256, n % 256 >>

\* Every length at or above Huge is represented by Huge: such a length exceeds
\* every sanity bound and every carrier of the model, and the code treats all
\* of them alike (a raise, or a slice clamped to the carrier).
Huge == 2 ^ 30

\* int.from_bytes(bytes, "big"), saturating at Huge.
RECURSIVE FromBytesAcc(_, _, _)
FromBytesAcc(bytes, i, acc) ==
  IF i > Len(bytes) THEN acc
  ELSE FromBytesAcc(bytes, i + 1,
                    IF acc >= 4194304 THEN Huge ELSE acc * 256 + bytes[i])

FromBytes(bytes) == FromBytesAcc(bytes, 1, 0)

\* The end, in bits, of a field of nbytes bytes starting at bit start, where
\* cap is the number of bits there are: anything past cap is cap + 1.
FieldEnd(start, nbytes, cap) ==
  IF nbytes > cap THEN cap + 1 ELSE Min(start + 8 * nbytes, cap + 1)

\* ------------------------------------------------------------------ CRC-32

\* zlib.crc32: the reflected CRC-32 (polynomial 0xEDB88320, initial value and
\* final XOR 0xFFFFFFFF), held as 32 bits, least significant first.
Crc32Poly ==
  << 0,0,0,0, 0,1,0,0, 1,1,0,0, 0,0,0,1, 0,0,0,1, 1,1,0,1, 1,0,1,1, 0,1,1,1 >>

Xor(a, b) == (a + b) % 2

CrcShift(reg) ==
  LET shifted == [i \in 1..32 |-> IF i < 32 THEN reg[i + 1] ELSE 0]
  IN  IF reg[1] = 1 THEN [i \in 1..32 |-> Xor(shifted[i], Crc32Poly[i])]
      ELSE shifted

CrcByte(reg, b) ==
  LET x == [i \in 1..32 |-> IF i <= 8 THEN Xor(reg[i], BitOf(b, i - 1)) ELSE reg[i]]
  IN  CrcShift(CrcShift(CrcShift(CrcShift(CrcShift(CrcShift(CrcShift(CrcShift(x))))))))

RECURSIVE CrcAcc(_, _, _)
CrcAcc(bytes, i, reg) ==
  IF i > Len(bytes) THEN reg ELSE CrcAcc(bytes, i + 1, CrcByte(reg, bytes[i]))

\* crc32(data) as its four big-endian bytes.
Crc32Bytes(data) ==
  LET reg == CrcAcc(data, 1, [i \in 1..32 |-> 1])
      out == [i \in 1..32 |-> 1 - reg[33 - i]]
  IN  PackBits(out)

\* ------------------------------------------------------------------- UTF-8

\* Strings are sequences of code points; str.encode("utf-8").
Utf8EncodeChar(cp) ==
  IF cp < 128 THEN << cp >>
  ELSE IF cp < 2048 THEN << 192 + (cp \div 64), 128 + (cp % 64) >>
  ELSE << 224 + (cp \div 4096), 128 + ((cp \div 64) % 64), 128 + (cp % 64) >>

RECURSIVE Utf8EncodeAcc(_, _, _)
Utf8EncodeAcc(str, i, acc) ==
  IF i > Len(str) THEN acc
  ELSE Utf8EncodeAcc(str, i + 1, acc \o Utf8EncodeChar(str[i]))

Utf8Encode(str) == Utf8EncodeAcc(str, 1, << >>)

\* One step of the decoder at byte i (1-based): a well-formed sequence of n
\* bytes and its code point, or the maximal ill-formed subpart of n bytes.
Utf8Step(bytes, i) ==
  LET at(k) == IF i + k <= Len(bytes) THEN bytes[i + k] ELSE -1
      b1 == bytes[i]
      cont(b) == b >= 128 /\ b <= 191
      lo2 == IF b1 = 224 THEN 160 ELSE IF b1 = 240 THEN 144 ELSE 128
      hi2 == IF b1 = 237 THEN 159 ELSE IF b1 = 244 THEN 143 ELSE 191
      bad(n) == [ok |-> FALSE, n |-> n, cp |-> 65533]
  IN  IF b1 < 128 THEN [ok |-> TRUE, n |-> 1, cp |-> b1]
      ELSE IF b1 >= 194 /\ b1 <= 223 THEN
        IF cont(at(1)) THEN [ok |-> TRUE, n |-> 2, cp |-> (b1 - 192) * 64 + (at(1) - 128)]
        ELSE bad(1)
      ELSE IF b1 >= 224 /\ b1 <= 239 THEN
        IF ~(at(1) >= lo2 /\ at(1) <= hi2) THEN bad(1)
        ELSE IF ~cont(at(2)) THEN bad(2)
        ELSE [ok |-> TRUE, n |-> 3,
              cp |-> (b1 - 224) * 4096 + (at(1) - 128) * 64 + (at(2) - 128)]
      ELSE IF b1 >= 240 /\ b1 <= 244 THEN
        IF ~(at(1) >= lo2 /\ at(1) <= hi2) THEN bad(1)
        ELSE IF ~cont(at(2)) THEN bad(2)
        ELSE IF ~cont(at(3)) THEN bad(3)
        ELSE [ok |-> TRUE, n |-> 4,
              cp |-> (b1 - 240) * 262144 + (at(1) - 128) * 4096
                     + (at(2) - 128) * 64 + (at(3) - 128)]
      ELSE bad(1)

RECURSIVE Utf8DecodeAcc(_, _, _, _)
Utf8DecodeAcc(bytes, i, ok, acc) ==
  IF i > Len(bytes) THEN [ok |-> ok, str |-> acc]
  ELSE LET st == Utf8Step(bytes, i)
       IN  Utf8DecodeAcc(bytes, i + st.n, ok /\ st.ok, Append(acc, st.cp))

\* bytes.decode("utf-8", errors="replace"): never fails, U+FFFD per ill-formed part.
Utf8DecodeReplace(bytes) == Utf8DecodeAcc(bytes, 1, TRUE, << >>).str

\* bytes.decode("utf-8"): ok is FALSE where Python raises UnicodeDecodeError.
Utf8DecodeStrict(bytes) == Utf8DecodeAcc(bytes, 1, TRUE, << >>)

\* ------------------------------------------------- hash, generator, shuffle

\* hashlib.sha256(data).digest()[:8] read big-endian: a stand-in hash of the
\* same bytes (deterministic, spreads the model's passwords apart).
RECURSIVE Sha256Acc(_, _, _)
Sha256Acc(data, i, h) ==
  IF i > Len(data) THEN h ELSE Sha256Acc(data, i + 1, (h * 31 + data[i] + 1) % 65521)

Sha256(data) == Sha256Acc(data, 1, 17)

\* numpy.random.default_rng(seed): the generator's state after seeding, and
\* its step (a linear congruential stand-in for PCG64).
DefaultRng(seed) == seed % 65537
RngNext(s) == (s * 75 + 74) % 65537

Swap(arr, i, j) == [arr EXCEPT ![i] = arr[j], ![j] = arr[i]]

\* Generator.permutation(n): arange(n) shuffled in place, Fisher-Yates from
\* the last index down, each partner drawn uniformly from [0, i].
ShuffleStep(st) ==
  IF st.i < 1 THEN st
  ELSE LET s2 == RngNext(st.s)
           j == s2 % (st.i + 1)
       IN  [arr |-> Swap(st.arr, st.i + 1, j + 1), i |-> st.i - 1, s |-> s2]

\* Eight steps of the loop per level of recursion (the loop is long).
ShuffleStep8(st) ==
  ShuffleStep(ShuffleStep(ShuffleStep(ShuffleStep(
  ShuffleStep(ShuffleStep(ShuffleStep(ShuffleStep(st))))))))

RECURSIVE Shuffle(_)
Shuffle(st) == IF st.i < 1 THEN st.arr ELSE Shuffle(ShuffleStep8(st))

Permutation(rng, n) ==
  Shuffle([arr |-> SubSeq([k \in 1..n |-> k - 1], 1, n), i |-> n - 1, s |-> rng])

\* ------------------------------------------------------------ result values

\* What embed or extract ends with: "ok", or the error it raises.
Ok(name, payload) == [status |-> "ok", name |-> name, payload |-> payload]
Raise(kind) == [status |-> kind, name |-> << >>, payload |-> << >>]

\* unit & 0xFE | bit on one unit (also (x & ~1) | bit on an int16 sample).
SetLSB(unit, bit) == unit - (unit % 2) + bit

\* arr[positions] = (arr[positions] & 0xFE) | bits, positions 0-based; a
\* position that occurs twice keeps the later write.
WriteLSBs(arr, positions, bits) ==
  [p \in 1..Len(arr) |->
     LET hits == {i \in 1..Len(bits) : positions[i] = p - 1}
     IN  IF hits = {} THEN arr[p]
         ELSE SetLSB(arr[p], bits[CHOOSE i \in hits : \A k \in hits : k <= i])]

\* (arr[positions] & 1) for a sequence of 0-based positions.
ReadLSBs(arr, positions) == [i \in 1..Len(positions) |-> arr[positions[i] + 1] % 2]

\* a[idx] for a sequence idx of 0-based indices.
Take(a, idx) == [i \in 1..Len(idx) |-> a[idx[i] + 1]]

\* ----------------------------------------------- plugins/image_lsb_stego.py

\* An image carrier as decoded by PIL into RGB or RGBA:
\*   flat  the colour bytes, three per pixel (arr[..., :3].ravel())
\*   alpha one byte per pixel when hasAlpha, else empty

ImageSeedFromPassword(password) ==
  IF password = << >> THEN 0 ELSE Sha256(Utf8Encode(password))

\* Every colour byte, transparent pixels or not.
ImageAvailablePositionsAll(c) == [i \in 1..Len(c.flat) |-> i - 1]

ImageAvailablePositions(c) ==
  LET all == [i \in 1..Len(c.flat) |-> i - 1]
  IN  IF c.hasAlpha THEN SelectSeq(all, LAMBDA p : c.alpha[(p \div 3) + 1] # 0)
      ELSE all

ImageCapacityBits(c) == Len(ImageAvailablePositions(c))

\* full = name_len_b + name_bytes + payload_len_b + payload_bytes + crc_b
ImageFull(payload_bytes, payload_name) ==
  LET name_bytes == Utf8Encode(payload_name)
  IN  ToBytes4(Len(name_bytes)) \o name_bytes
      \o ToBytes4(Len(payload_bytes)) \o payload_bytes \o Crc32Bytes(payload_bytes)

ImageBits(payload_bytes, payload_name) == UnpackBits(ImageFull(payload_bytes, payload_name))

\* if nbits > capacity_bits: raise
ImageCheck(c, bits) ==
  IF Len(bits) > ImageCapacityBits(c) THEN "CapacityError" ELSE "ok"

ImagePerm(password, capacity_bits) ==
  Permutation(DefaultRng(ImageSeedFromPassword(password)), capacity_bits)

\* embed: perm = rng.permutation(capacity_bits)
ImageEmbedPerm(c, password) == ImagePerm(password, ImageCapacityBits(c))

\* The drawn indices taken as positions themselves: chosen = perm[:nbits].
ImageChosenUnmasked(c, password, nbits) ==
  Slice(ImageEmbedPerm(c, password), 0, nbits)

\* chosen = available_positions[perm[:nbits]]
ImageChosen(c, password, nbits) ==
  Take(ImageAvailablePositions(c), Slice(ImageEmbedPerm(c, password), 0, nbits))

\* A write that stores the bit as the whole byte: flat[chosen] = bits.
ImageWriteWholeByte(c, password, bits) ==
  IF Len(bits) > ImageCapacityBits(c) THEN c.flat
  ELSE LET chosen == ImageChosen(c, password, Len(bits))
       IN  [p \in 1..Len(c.flat) |->
              IF \E i \in 1..Len(bits) : chosen[i] = p - 1
              THEN bits[CHOOSE i \in 1..Len(bits) : chosen[i] = p - 1]
              ELSE c.flat[p]]

\* flat[chosen] = (flat[chosen] & 0xFE) | bits. With more bits than chosen
\* positions numpy raises on the shapes before anything is assigned.
ImageWrite(c, password, bits) ==
  IF Len(bits) > ImageCapacityBits(c) THEN c.flat
  ELSE WriteLSBs(c.flat, ImageChosen(c, password, Len(bits)), bits)

ExtractedBin == << 101, 120, 116, 114, 97, 99, 116, 101, 100, 46, 98, 105, 110 >>
ImageNameCap == 10240
ImagePayloadCap == 209715200

\* extract drawing with the seed of the empty password whatever the password.
ImageExtractPermUnseeded(c, password) == ImagePerm(<< >>, ImageCapacityBits(c))

\* extract: perm = rng.permutation(capacity_bits)
ImageExtractPerm(c, password) == ImagePerm(password, ImageCapacityBits(c))

\* The lengths extract reads from the header: name_len, payload_len.
ImageHeader(c, password) ==
  LET available_positions == ImageAvailablePositions(c)
      perm == ImageExtractPerm(c, password)
      read(a, b) == PackBits(ReadLSBs(c.flat, Take(available_positions, Slice(perm, a, b))))
      name_len == FromBytes(read(0, 32))
      payload_len_idx_start == 32 + Min(name_len, ImageNameCap) * 8
  IN  [name_len |-> name_len,
       payload_len |-> FromBytes(read(payload_len_idx_start, payload_len_idx_start + 32))]

ImageExtract(c, password) ==
  LET available_positions == ImageAvailablePositions(c)
      capacity_bits == Len(available_positions)
      perm == ImageExtractPerm(c, password)
      read(a, b) == PackBits(ReadLSBs(c.flat, Take(available_positions, Slice(perm, a, b))))
      name_len == FromBytes(read(0, 32))
      name_bits_len == name_len * 8
      extracted_name == Utf8DecodeReplace(read(32, 32 + name_bits_len))
      payload_len_idx_start == 32 + name_bits_len
      payload_len == FromBytes(read(payload_len_idx_start, payload_len_idx_start + 32))
      payload_bits_start == payload_len_idx_start + 32
      crc_bits_start == payload_bits_start + payload_len * 8
      total_bits_needed == crc_bits_start + 32
      payload_bytes == read(payload_bits_start, crc_bits_start)
      crc_bytes == read(crc_bits_start, crc_bits_start + 32)
  IN  IF name_len > ImageNameCap THEN Raise("FormatError")
      ELSE IF payload_len > ImagePayloadCap THEN Raise("FormatError")
      ELSE IF total_bits_needed > capacity_bits THEN Raise("FormatError")
      ELSE IF crc_bytes # Crc32Bytes(payload_bytes) THEN Raise("IntegrityError")
      ELSE Ok(IF extracted_name = << >> THEN ExtractedBin ELSE extracted_name,
              payload_bytes)

\* ----------------------------------------------- plugins/video_lsb_stego.py

\* A video carrier as decoded by OpenCV:
\*   hasFrame0  whether a first frame can be read
\*   blue       frame0[:, :, 0].reshape(-1), the units
\*   others     the green and red channels of frame 0 (never addressed singly)
\*   rest       the later frames, in order

PayloadBin == << 112, 97, 121, 108, 111, 97, 100, 46, 98, 105, 110 >>
VideoNameMax == 65535
VideoPayloadCap == 10000000

\* _rng: seed = int.from_bytes(sha256(password.encode()).digest()[:8], "big")
VideoSeed(password) == Sha256(Utf8Encode(password))

VideoRng(password) == DefaultRng(VideoSeed(password))

\* if not payload_name: payload_name = "payload.bin"
VideoPayloadName(payload_name) == IF payload_name = << >> THEN PayloadBin ELSE payload_name

VideoData(payload, payload_name) ==
  LET fname_bytes == Utf8Encode(VideoPayloadName(payload_name))
  IN  ToBytes2(Len(fname_bytes)) \o fname_bytes
      \o ToBytes4(Len(payload)) \o payload \o Crc32Bytes(payload)

VideoBits(payload, payload_name) == UnpackBits(VideoData(payload, payload_name))

\* The checks of embed without the comparison of bits.size with blue.size.
VideoCheckNoCapacity(c, payload, payload_name) ==
  IF Len(Utf8Encode(VideoPayloadName(payload_name))) > VideoNameMax THEN "FormatError"
  ELSE IF ~c.hasFrame0 THEN "FormatError"
  ELSE "ok"

\* The checks of embed, in the order of the code.
VideoCheck(c, payload, payload_name) ==
  IF Len(Utf8Encode(VideoPayloadName(payload_name))) > VideoNameMax THEN "FormatError"
  ELSE IF ~c.hasFrame0 THEN "FormatError"
  ELSE IF Len(VideoBits(payload, payload_name)) > Len(c.blue) THEN "CapacityError"
  ELSE "ok"

VideoPerm(password, size) == Permutation(VideoRng(password), size)

\* embed: perm = self._rng(password).permutation(blue.size)
VideoEmbedPerm(c, password) == VideoPerm(password, Len(c.blue))

\* extract: perm = self._rng(password).permutation(blue.size)
VideoExtractPerm(c, password) == VideoPerm(password, Len(c.blue))

\* for i, bit in enumerate(bits): blue[perm[i]] = (blue[perm[i]] & 0xFE) | bit
\* The loop writes unit by unit: with more bits than units it has written
\* every unit by the time perm[i] raises IndexError.
VideoWrite(c, password, bits) ==
  WriteLSBs(c.blue, Slice(VideoEmbedPerm(c, password), 0, Len(bits)),
            Slice(bits, 0, Len(c.blue)))

\* The lengths extract reads from the header: fname_len, payload_len.
VideoHeader(c, password) ==
  LET perm == VideoExtractPerm(c, password)
      read(idx, n) == PackBits(ReadLSBs(c.blue, Slice(perm, idx, idx + n)))
      fname_len == FromBytes(read(0, 16))
  IN  [name_len |-> fname_len,
       payload_len |-> FromBytes(read(16 + fname_len * 8, 32))]

VideoExtract(c, password) ==
  LET size == Len(c.blue)
      perm == VideoExtractPerm(c, password)
      \* [blue[perm[idx + i]] & 1 for i in range(n)], packed
      read(idx, n) == PackBits(ReadLSBs(c.blue, Slice(perm, idx, idx + n)))
      fname_len == FromBytes(read(0, 16))
      fname_end == 16 + fname_len * 8
      filename == Utf8DecodeStrict(read(16, fname_len * 8))
      payload_len == FromBytes(read(fname_end, 32))
      payload_start == fname_end + 32
      payload_end == FieldEnd(payload_start, payload_len, size)
      payload == read(payload_start, payload_len * 8)
      crc_expected == read(payload_end, 32)
  IN  IF ~c.hasFrame0 THEN Raise("FormatError")
      ELSE IF size < 16 THEN Raise("IndexError")
      ELSE IF fname_end > size THEN Raise("IndexError")
      ELSE IF fname_len = 0 THEN Raise("TypeError")
      ELSE IF ~filename.ok THEN Raise("UnicodeDecodeError")
      ELSE IF fname_end + 32 > size THEN Raise("IndexError")
      ELSE IF payload_len <= 0 \/ payload_len > VideoPayloadCap THEN Raise("FormatError")
      ELSE IF payload_end > size THEN Raise("IndexError")
      ELSE IF payload_end + 32 > size THEN Raise("IndexError")
      ELSE IF Crc32Bytes(payload) # crc_expected THEN Raise("IntegrityError")
      ELSE Ok(filename.str, payload)

\* ----------------------------------------------- plugins/audio_lsb_stego.py

\* An audio carrier as read by scipy.io.wavfile:
\*   int16    whether samples.dtype is int16
\*   samples  samples.flatten(), each in -32768..32767

AesBlockSize == 16

\* _derive_key: sha256 of the password.
AudioDeriveKey(password) == Sha256(Utf8Encode(password))

\* Crypto.Util.Padding.pad (PKCS#7).
Pad(data, block) ==
  LET v == block - (Len(data) % block)
  IN  data \o [i \in 1..v |-> v]

\* Crypto.Util.Padding.unpad: ok is FALSE where it raises ValueError.
Unpad(padded, block) ==
  LET n == Len(padded)
      v == IF n = 0 THEN 0 ELSE padded[n]
      good == /\ n > 0
              /\ n % block = 0
              /\ v >= 1
              /\ v <= Min(block, n)
              /\ \A i \in (n - v + 1)..n : padded[i] = v
  IN  IF good THEN [ok |-> TRUE, data |-> Slice(padded, 0, n - v)]
      ELSE [ok |-> FALSE, data |-> << >>]

\* AES in CBC mode, stand-in: each ciphertext byte is the plaintext byte plus
\* the byte one block earlier (the IV for the first block) plus a byte of a
\* key stream that depends on the key and on the place in the block.
CbcKeyByte(key, i) == Sha256(<< key % 256, key \div 256, i >>) % 256

RECURSIVE CbcEncryptAcc(_, _, _, _)
CbcEncryptAcc(key, prev, plain, acc) ==
  IF plain = << >> THEN acc
  ELSE LET blk == [i \in 1..AesBlockSize |->
                     (plain[i] + prev[i] + CbcKeyByte(key, i)) % 256]
       IN  CbcEncryptAcc(key, blk, Slice(plain, AesBlockSize, Len(plain)), acc \o blk)

CbcEncrypt(key, iv, plain) == CbcEncryptAcc(key, iv, plain, << >>)

CbcDecrypt(key, iv, ct) ==
  LET prev(i) == IF i <= AesBlockSize THEN iv[i] ELSE ct[i - AesBlockSize]
      place(i) == ((i - 1) % AesBlockSize) + 1
  IN  [i \in 1..Len(ct) |-> (ct[i] - prev(i) - CbcKeyByte(key, place(i))) % 256]

\* _encrypt: iv + cipher.encrypt(pad(data)); iv is get_random_bytes(16).
AudioEncrypt(data, password, iv) ==
  iv \o CbcEncrypt(AudioDeriveKey(password), iv, Pad(data, AesBlockSize))

\* _decrypt: ok is FALSE where the cipher or unpad raises ValueError.
AudioDecrypt(data, password) ==
  LET iv == Slice(data, 0, 16)
      ct == Slice(data, 16, Len(data))
  IN  IF Len(iv) # AesBlockSize \/ Len(ct) % AesBlockSize # 0
      THEN [ok |-> FALSE, data |-> << >>]
      ELSE Unpad(CbcDecrypt(AudioDeriveKey(password), iv, ct), AesBlockSize)

\* payload_bytes of an embed that never encrypts.
AudioPayloadBytesPlain(payload, password, iv) == payload

\* payload_bytes of embed: the ciphertext when a password is given.
AudioPayloadBytes(payload, password, iv) ==
  IF password # << >> THEN AudioEncrypt(payload, password, iv) ELSE payload

\* The frame with the length of the plaintext in the payload length field.
AudioFullDataPlainLen(payload, payload_name, password, iv) ==
  LET name_bytes == Utf8Encode(payload_name)
      payload_bytes == AudioPayloadBytes(payload, password, iv)
  IN  ToBytes4(Len(name_bytes)) \o name_bytes \o ToBytes4(Len(payload)) \o payload_bytes

\* full_data = header + payload_bytes
AudioFullData(payload, payload_name, password, iv) ==
  LET name_bytes == Utf8Encode(payload_name)
      payload_bytes == AudioPayloadBytes(payload, password, iv)
  IN  ToBytes4(Len(name_bytes)) \o name_bytes \o ToBytes4(Len(payload_bytes)) \o payload_bytes

AudioBitstream(payload, payload_name, password, iv) ==
  UnpackBits(AudioFullData(payload, payload_name, password, iv))

AudioCheck(c, bitstream) ==
  IF ~c.int16 THEN "FormatError"
  ELSE IF Len(bitstream) > Len(c.samples) THEN "CapacityError"
  ELSE "ok"

\* stego[:len(bitstream)] &= ~1; stego[:len(bitstream)] |= bitstream
\* With more bits than samples the first statement clears every LSB and the
\* second raises on the shapes.
AudioWrite(c, bitstream) ==
  [i \in 1..Len(c.samples) |->
     IF Len(bitstream) > Len(c.samples) THEN SetLSB(c.samples[i], 0)
     ELSE IF i <= Len(bitstream) THEN SetLSB(c.samples[i], bitstream[i])
     ELSE c.samples[i]]

\* The lengths extract reads from the header: name_len, payload_len.
AudioHeader(c) ==
  LET flat == c.samples
      lsb(a, b) == PackBits([i \in 1..Len(Slice(flat, a, b)) |-> Slice(flat, a, b)[i] % 2])
      name_len == FromBytes(lsb(0, 32))
      offset == FieldEnd(32, name_len, Len(flat))
  IN  [name_len |-> name_len, payload_len |-> FromBytes(lsb(offset, offset + 32))]

AudioExtract(c, password) ==
  LET flat == c.samples
      lsb(a, b) == PackBits([i \in 1..Len(Slice(flat, a, b)) |-> Slice(flat, a, b)[i] % 2])
      name_len_raw == lsb(0, 32)
      name_len == FromBytes(name_len_raw)
      name_end == FieldEnd(32, name_len, Len(flat))
      name == Utf8DecodeStrict(lsb(32, name_end))
      offset == name_end
      payload_len_raw == lsb(offset, offset + 32)
      payload_len == FromBytes(payload_len_raw)
      payload_start == offset + 32
      payload_data == lsb(payload_start, FieldEnd(payload_start, payload_len, Len(flat)))
      plain == AudioDecrypt(payload_data, password)
  IN  IF Len(name_len_raw) # 4 THEN Raise("StructError")
      ELSE IF ~name.ok THEN Raise("UnicodeDecodeError")
      ELSE IF Len(payload_len_raw) # 4 THEN Raise("StructError")
      ELSE IF password # << >> THEN
             IF plain.ok THEN Ok(name.str, plain.data) ELSE Raise("CryptoError")
      ELSE Ok(name.str, payload_data)

\* ------------------------------------------------------------------ base64

\* The base64 alphabet: the ASCII code of digit d, and the digit of a code
\* (64 for a character outside the alphabet).
B64Char(d) ==
  IF d < 26 THEN 65 + d
  ELSE IF d < 52 THEN 97 + (d - 26)
  ELSE IF d < 62 THEN 48 + (d - 52)
  ELSE IF d = 62 THEN 43 ELSE 47

B64Digit(ch) ==
  IF ch >= 65 /\ ch <= 90 THEN ch - 65
  ELSE IF ch >= 97 /\ ch <= 122 THEN ch - 97 + 26
  ELSE IF ch >= 48 /\ ch <= 57 THEN ch - 48 + 52
  ELSE IF ch = 43 THEN 62
  ELSE IF ch = 47 THEN 63 ELSE 64

B64Pad == 61

\* base64.b64encode: four characters per three bytes, "=" padded.
B64Encode(data) ==
  LET n == Len(data)
      at(i) == IF i <= n THEN data[i] ELSE 0
      quad(g, k) ==
        LET b1 == at(3*g - 2)
            b2 == at(3*g - 1)
            b3 == at(3*g)
        IN  IF k = 1 THEN B64Char(b1 \div 4)
            ELSE IF k = 2 THEN B64Char((b1 % 4) * 16 + (b2 \div 16))
            ELSE IF k = 3 THEN
              (IF 3*g - 1 > n THEN B64Pad ELSE B64Char((b2 % 16) * 4 + (b3 \div 64)))
            ELSE (IF 3*g > n THEN B64Pad ELSE B64Char(b3 % 64))
  IN  [i \in 1..(4 * ((n + 2) \div 3)) |-> quad(((i - 1) \div 4) + 1, ((i - 1) % 4) + 1)]

\* binascii.a2b_base64 (not strict), one input character: characters outside
\* the alphabet are skipped, enough "=" after two or more digits of a quad
\* ends the data.
B64Step(st, ch) ==
  IF st.done THEN st
  ELSE IF ch = B64Pad THEN
    IF st.quad >= 2 /\ st.quad + st.pads + 1 >= 4 THEN [st EXCEPT !.done = TRUE]
    ELSE IF st.quad >= 2 THEN [st EXCEPT !.pads = st.pads + 1]
    ELSE st
  ELSE LET d == B64Digit(ch)
       IN  IF d >= 64 THEN st
           ELSE IF st.quad = 0 THEN [st EXCEPT !.quad = 1, !.left = d, !.pads = 0]
           ELSE IF st.quad = 1 THEN
             [st EXCEPT !.quad = 2, !.left = d % 16, !.pads = 0,
                        !.out = Append(st.out, st.left * 4 + (d \div 16))]
           ELSE IF st.quad = 2 THEN
             [st EXCEPT !.quad = 3, !.left = d % 4, !.pads = 0,
                        !.out = Append(st.out, st.left * 16 + (d \div 4))]
           ELSE
             [st EXCEPT !.quad = 0, !.left = 0, !.pads = 0,
                        !.out = Append(st.out, st.left * 64 + d)]

B64Step4(st, s, i) ==
  LET ch(k) == IF i + k <= Len(s) THEN s[i + k] ELSE B64Pad
      use(t, k) == IF i + k <= Len(s) THEN B64Step(t, ch(k)) ELSE t
  IN  use(use(use(use(st, 0), 1), 2), 3)

RECURSIVE B64Run(_, _, _)
B64Run(st, s, i) ==
  IF st.done \/ i > Len(s) THEN st ELSE B64Run(B64Step4(st, s, i), s, i + 4)

\* base64.b64decode(s): ok is FALSE where it raises binascii.Error.
B64Decode(s) ==
  LET st == B64Run([quad |-> 0, pads |-> 0, left |-> 0, out |-> << >>, done |-> FALSE], s, 1)
  IN  [ok |-> st.done \/ st.quad = 0, data |-> st.out]

\* ------------------------------------------------ plugins/text_lsb_stego.py

\* A text carrier: text, the file's code points.
ZW0 == 8203
ZW1 == 8204
ZWS == 8205

GcmOverhead == 48

\* PBKDF2(password, salt, dkLen=32, count=100000): a stand-in of the same inputs.
Pbkdf2(password, salt) == Sha256(Utf8Encode(password) \o salt)

\* AES-GCM, stand-in: a keystream added bytewise, and a 16-byte tag that is a
\* hash of key, nonce and ciphertext.
GcmStream(key, nonce, data, sign) ==
  [i \in 1..Len(data) |-> (data[i] + sign * (key + Sha256(nonce) + i)) % 256]

GcmTag(key, nonce, ciphertext) ==
  LET t == Sha256(<< key % 256, key \div 256 >> \o nonce \o ciphertext)
  IN  [i \in 1..16 |-> (t \div (IF i % 2 = 1 THEN 1 ELSE 256) + i) % 256]

\* _encrypt: salt + cipher.nonce + tag + ciphertext, salt and nonce random.
TextEncrypt(data, password, salt, nonce) ==
  LET key == Pbkdf2(password, salt)
      ciphertext == GcmStream(key, nonce, data, 1)
  IN  salt \o nonce \o GcmTag(key, nonce, ciphertext) \o ciphertext

\* _decrypt: ok is FALSE where decrypt_and_verify (or AES.new) raises ValueError.
TextDecrypt(data, password) ==
  LET salt == Slice(data, 0, 16)
      nonce == Slice(data, 16, 32)
      tag == Slice(data, 32, 48)
      ciphertext == Slice(data, 48, Len(data))
      key == Pbkdf2(password, salt)
  IN  IF nonce # << >> /\ tag = GcmTag(key, nonce, ciphertext)
      THEN [ok |-> TRUE, data |-> GcmStream(key, nonce, ciphertext, -1)]
      ELSE [ok |-> FALSE, data |-> << >>]

\* _to_bits of bytes, as a sequence of bits.
ToBits(data) == UnpackBits(data)

\* _from_bits: int(bits[i:i+8], 2) per chunk of eight, the last one as long as it is.
FromBits(bits) ==
  LET n == (Len(bits) + 7) \div 8
      chunk(k) == Slice(bits, 8 * (k - 1), 8 * k)
      value(c) == FromBytes(PackBits(c)) \div (2 ^ (8 - Len(c)))
  IN  [k \in 1..n |-> value(chunk(k))]

\* data of embed: header + payload, encrypted when a password is given.
TextData(payload, payload_name, password, salt, nonce) ==
  LET data == Utf8Encode(Append(payload_name, 0)) \o payload
  IN  IF password # << >> THEN TextEncrypt(data, password, salt, nonce) ELSE data

TextBits(payload, payload_name, password, salt, nonce) ==
  ToBits(B64Encode(TextData(payload, payload_name, password, salt, nonce)))

\* A stego text that ends with the last bit, without the separator.
TextWriteNoSeparator(c, bits) ==
  c.text \o [i \in 1..Len(bits) |-> IF bits[i] = 1 THEN ZW1 ELSE ZW0]

\* stego_text = text + "".join(zw_stream)
TextWrite(c, bits) ==
  c.text \o [i \in 1..Len(bits) |-> IF bits[i] = 1 THEN ZW1 ELSE ZW0] \o << ZWS >>

\* The index of the first element of s that is x, or 0.
IndexOf(s, x) == IF \E i \in 1..Len(s) : s[i] = x
                 THEN CHOOSE i \in 1..Len(s) : s[i] = x /\ \A k \in 1..(i - 1) : s[k] # x
                 ELSE 0

TextExtract(c, password) ==
  LET zw_chars == SelectSeq(c.text, LAMBDA ch : ch \in {ZW0, ZW1, ZWS})
      stop == IndexOf(zw_chars, ZWS)
      bits == [i \in 1..(stop - 1) |-> IF zw_chars[i] = ZW1 THEN 1 ELSE 0]
      decoded == B64Decode(FromBits(bits))
      plain == IF password # << >> THEN TextDecrypt(decoded.data, password) ELSE decoded
      nul == IndexOf(plain.data, 0)
  IN  IF stop = 0 THEN Raise("NoPayload")
      ELSE IF ~decoded.ok THEN Raise("Base64Error")
      ELSE IF ~plain.ok THEN Raise("CryptoError")
      ELSE IF nul = 0 THEN Raise("ValueError")
      ELSE Ok(Utf8DecodeReplace(Slice(plain.data, 0, nul - 1)),
              Slice(plain.data, nul, Len(plain.data)))

\* ------------------------------------------------------------------ inputs

PayloadBytes == {0, 65}
NameChars == {0, 97}

\* Payloads (bytes objects), payload names and passwords (strings).
Payloads == SeqsUpTo(PayloadBytes, MaxPayloadLen)
Names == SeqsUpTo(NameChars, MaxNameLen)
Passwords == {<< >>, << 112 >>, << 113 >>}
EmbedPasswords == {<< >>, << 112 >>}

\* What get_random_bytes(16) may return.
RandomBytes == {[i \in 1..16 |-> 7], [i \in 1..16 |-> (i * 29) % 256]}

ColourFill(n) == [i \in 1..n |-> (i * 37) % 256]

\* npix pixels, RGBA with the pixels in zeroAlpha fully transparent, or RGB.
ImageCarrier(npix, hasAlpha, zeroAlpha) ==
  [kind |-> "image", flat |-> ColourFill(3 * npix), hasAlpha |-> hasAlpha,
   alpha |-> IF hasAlpha THEN [i \in 1..npix |-> IF i \in zeroAlpha THEN 0 ELSE 255]
             ELSE << >>]

VideoCarrier(npix, hasFrame0) ==
  [kind |-> "video", hasFrame0 |-> hasFrame0,
   blue |-> IF hasFrame0 THEN ColourFill(npix) ELSE << >>,
   others |-> IF hasFrame0 THEN 1 ELSE 0,
   rest |-> IF hasFrame0 THEN << 2, 3 >> ELSE << >>]

AudioCarrier(n, int16) ==
  [kind |-> "audio", int16 |-> int16,
   samples |-> [i \in 1..n |-> ((i * 37) % 2001) - 1000]]

TextCarrier(text) == [kind |-> "text", text |-> text]

\* Carriers whose units hold given least significant bits: an image without
\* alpha, the blue bytes of a first frame, 16-bit samples.
ImageOfBits(lsbs) ==
  [kind |-> "image", flat |-> [i \in 1..Len(lsbs) |-> 2 * ((i * 37) % 128) + lsbs[i]],
   hasAlpha |-> FALSE, alpha |-> << >>]

VideoOfBits(lsbs) ==
  [kind |-> "video", hasFrame0 |-> TRUE,
   blue |-> [i \in 1..Len(lsbs) |-> 2 * ((i * 37) % 128) + lsbs[i]],
   others |-> 1, rest |-> << 2, 3 >>]

AudioOfBits(lsbs) ==
  [kind |-> "audio", int16 |-> TRUE,
   samples |-> [i \in 1..Len(lsbs) |-> 2 * (((i * 37) % 1001) - 500) + lsbs[i]]]

\* n zero bits.
Zeros(n) == [i \in 1..n |-> 0]

\* The bits of an audio frame that declares a payload of two bytes and is cut
\* after the first of them.
CutAudioFrame == UnpackBits(ToBytes4(0) \o ToBytes4(2) \o << 65 >>)

\* The carriers: for each index-addressed variant one that the smallest frame
\* fills exactly, one that is one unit short of a frame, and one that holds
\* every frame of the model.
FrameSlack == 8 * (MaxPayloadLen + MaxNameLen)

Carriers ==
  { ImageCarrier(34, TRUE, {2, 7}),
    ImageCarrier(39, TRUE, {1, 39}),
    ImageCarrier(33 + (FrameSlack + 2) \div 3, FALSE, {}),
    VideoCarrier(95, TRUE),
    VideoCarrier(96, TRUE),
    VideoCarrier(168 + FrameSlack, TRUE),
    VideoCarrier(0, FALSE),
    AudioCarrier(64, TRUE),
    AudioCarrier(79, TRUE),
    AudioCarrier(320 + FrameSlack, TRUE),
    AudioCarrier(320 + FrameSlack, FALSE),
    TextCarrier(<< 104, 105 >>),
    TextCarrier(<< >>),
    TextCarrier(<< 104, ZW0, 105 >>),
    TextCarrier(<< ZWS, 104 >>),
    ImageOfBits(Zeros(96)),
    VideoOfBits(Zeros(96)),
    AudioOfBits(Zeros(64)),
    AudioOfBits(CutAudioFrame) }

\* ------------------------------------------------------- variant dispatch

NoFile == [kind |-> "none"]
NoResult == [status |-> "none", name |-> << >>, payload |-> << >>]

\* The carrier's units as embed holds them in memory after loading it.
LoadUnits(c) ==
  CASE c.kind = "image" -> c.flat
    [] c.kind = "video" -> c.blue
    [] c.kind = "audio" -> c.samples
    [] c.kind = "text"  -> c.text

\* A video writer that writes the first frame and stops.
VideoOutputFirstFrameOnly(c, blue) ==
  [kind |-> "video", hasFrame0 |-> c.hasFrame0, blue |-> blue,
   others |-> c.others, rest |-> << >>]

\* frame0[:, :, 0] = blue; out.write(frame0); then every later frame the
\* capture reads is written as read, in order.
VideoOutput(c, blue) ==
  [kind |-> "video", hasFrame0 |-> c.hasFrame0, blue |-> blue,
   others |-> c.others, rest |-> c.rest]

\* The artifact embed writes from the units it holds.
Artifact(c, u) ==
  CASE c.kind = "image" -> [c EXCEPT !.flat = u]
    [] c.kind = "video" -> VideoOutput(c, u)
    [] c.kind = "audio" -> [c EXCEPT !.samples = u]
    [] c.kind = "text"  -> [c EXCEPT !.text = u]

\* Whether the variant's embed encrypts with this password.
Encrypts(c, pw) == c.kind \in {"audio", "text"} /\ pw # << >>

Bitstream(c, payload_bytes, payload_name, pw, r1, r2) ==
  CASE c.kind = "image" -> ImageBits(payload_bytes, payload_name)
    [] c.kind = "video" -> VideoBits(payload_bytes, payload_name)
    [] c.kind = "audio" -> AudioBitstream(payload_bytes, payload_name, pw, r1)
    [] c.kind = "text"  -> TextBits(payload_bytes, payload_name, pw, r1, r2)

\* The checks embed makes before it writes: "ok" or the error raised.
EmbedCheck(c, payload_bytes, payload_name, bs) ==
  CASE c.kind = "image" -> ImageCheck(c, bs)
    [] c.kind = "video" -> VideoCheck(c, payload_bytes, payload_name)
    [] c.kind = "audio" -> AudioCheck(c, bs)
    [] c.kind = "text"  -> "ok"

\* The number of units the variant's write can address (text appends).
UnitCount(c) ==
  CASE c.kind = "image" -> ImageCapacityBits(c)
    [] c.kind = "video" -> Len(c.blue)
    [] c.kind = "audio" -> Len(c.samples)
    [] c.kind = "text"  -> Huge

WriteUnits(c, pw, bs) ==
  CASE c.kind = "image" -> ImageWrite(c, pw, bs)
    [] c.kind = "video" -> VideoWrite(c, pw, bs)
    [] c.kind = "audio" -> AudioWrite(c, bs)
    [] c.kind = "text"  -> TextWrite(c, bs)

\* The 0-based unit that holds bit i (1-based) of an nbits-long bitstream.
Placement(c, pw, nbits) ==
  CASE c.kind = "image" -> ImageChosen(c, pw, nbits)
    [] c.kind = "video" -> Slice(VideoEmbedPerm(c, pw), 0, nbits)
    [] c.kind = "audio" -> [i \in 1..nbits |-> i - 1]
    [] c.kind = "text"  -> [i \in 1..nbits |-> Len(c.text) + i - 1]

\* The "encrypted" entry of the dictionary embed returns: the image and the
\* video variant return none.
EmbedInfo(c, pw) ==
  CASE c.kind = "audio" -> IF pw # << >> THEN "true" ELSE "false"
    [] c.kind = "text"  -> IF pw # << >> THEN "true" ELSE "false"
    [] OTHER -> "absent"

Extract(c, pw) ==
  CASE c.kind = "image" -> ImageExtract(c, pw)
    [] c.kind = "video" -> VideoExtract(c, pw)
    [] c.kind = "audio" -> AudioExtract(c, pw)
    [] c.kind = "text"  -> TextExtract(c, pw)

\* ------------------------------------------------------------------- state

VARIABLES
  carrier,     \* the carrier file given to embed
  payload,     \* payload_bytes
  name,        \* payload_name
  password,    \* the password given to embed
  pc,          \* idle, ready, written, saved, extracted, rawextracted, error
  bits,        \* the bitstream embed built
  units,       \* the carrier's units as embed holds them in memory
  output,      \* the artifact embed wrote, or NoFile
  embedStatus, \* none, ok, or the error embed raised
  tampered,    \* the bit (1-based) flipped in the artifact, or 0
  xpw,         \* the password given to extract
  result,      \* what extract ended with
  info,        \* the "encrypted" entry of what embed returned, or none
  trace,       \* the phases embed and extract have passed, in order
  first,       \* the name and payload of an earlier embed into the carrier
  disk,        \* the upload directory: each path's file, or no file
  th           \* each server thread's /embed request and its position

vars == << carrier, payload, name, password, pc, bits, units, output,
           embedStatus, tampered, xpw, result, info, trace, first, disk, th >>

\* The variables of one embed and extract, and those of the server.
evars == << carrier, payload, name, password, pc, bits, units, output,
            embedStatus, tampered, xpw, result, info, trace, first >>
svars == << disk, th >>

\* ---- The server: requests served by concurrent threads ----

\* How many blocks a writer writes to its output file.
ArtifactChunks == 2

\* How many requests one thread serves.
MaxRequests == 1

Threads == {1, 2}

\* The request that was served before the threads start, and every request.
Earlier == 0
Served == Threads \cup {Earlier}

\* The file names clients send: a stem and a suffix.
Uploads ==
  {[base |-> "a", ext |-> "mp4"], [base |-> "a", ext |-> "avi"],
   [base |-> "a", ext |-> "png"], [base |-> "embedded_a", ext |-> "png"]}

\* mime.startswith("video/") of the file's type.
IsVideo(f) == f.ext \in {"mp4", "avi"}

\* An output written onto its own carrier.
OutnameInPlace(fname) == fname

\* outname = f"embedded_{fname}"; outfile = UPLOAD_DIR / outname
Outname(fname) == [fname EXCEPT !.base = "embedded_" \o @]

\* Path.with_suffix(".avi")
WithSuffixAvi(f) == [f EXCEPT !.ext = "avi"]

\* The path the plugin writes: the video plugin replaces the suffix of the
\* outfile it is given, the other plugins write the outfile itself.
PluginOutfile(fname) ==
  IF IsVideo(fname) THEN WithSuffixAvi(Outname(fname)) ELSE Outname(fname)

\* filename = f"{base}_{i}{ext}"
Dedup(f, i) == [f EXCEPT !.base = @ \o "_" \o ToString(i)]

\* The names upload can store under, and every path of the directory.
Stored == Uploads \cup {Dedup(f, i) : f \in Uploads, i \in 1..(2 * MaxRequests)}
Paths == Stored \cup {Outname(f) : f \in Stored} \cup {PluginOutfile(f) : f \in Stored}

NoSuchFile == [exists |-> FALSE, data |-> << >>]

\* Block k of the artifact an embed on carrier fname writes.
Chunk(fname, k) == [of |-> fname, k |-> k, by |-> 0]

\* The artifact an embed on carrier fname leaves when it runs alone.
SoloArtifact(fname) ==
  [exists |-> TRUE, data |-> [k \in 1..ArtifactChunks |-> Chunk(fname, k)]]

\* A carrier file stored by an upload served before the threads start.
CarrierFile(fname) == [exists |-> TRUE, data |-> << Chunk(fname, 0) >>]

\* The file thread t's upload request sends under the name fname.
UploadedFile(fname, t) == [exists |-> TRUE, data |-> << [of |-> fname, k |-> 0, by |-> t] >>]

\* What a file holds where nothing was written before the place of a write.
Hole == [of |-> [base |-> "", ext |-> ""], k |-> 0, by |-> 0]

\* A write of one block at the writer's own offset pos into the file.
WriteAt(file, pos, chunk) ==
  [exists |-> TRUE,
   data |-> [k \in 1..Max(Len(file.data), pos + 1) |->
               IF k = pos + 1 THEN chunk
               ELSE IF k <= Len(file.data) THEN file.data[k] ELSE Hole]]

\* What extract returns for a file: a function of what the file holds.
ExtractOutcome(file) == [status |-> IF Len(file.data) = ArtifactChunks THEN "ok" ELSE "error",
                         from |-> file.data]

NoOutcome == [status |-> "none", from |-> << >>]

\* The disk after /extract has served a request for fname: nothing is written.
ExtractEffect(d, fname) == d

\* An /extract request for the uploaded carrier fname, served to its end.
EarlierExtract(fname) ==
  [pc |-> "done", kind |-> "extract", fname |-> fname, path |-> fname, pos |-> 0,
   i |-> 1, n |-> MaxRequests, status |-> "ok",
   outcome |-> ExtractOutcome(CarrierFile(fname))]

\* kind: the route; fname: the file name of the request; path: the path the
\* handler writes; pos: the writer's offset; i: upload's counter; n: the
\* requests the thread has taken; status, outcome: what the handler returned.
IdleThread(fname) ==
  [pc |-> "idle", kind |-> "none", fname |-> fname, path |-> fname, pos |-> 0,
   i |-> 1, n |-> 0, status |-> "none", outcome |-> NoOutcome]

NoFirst == [embedded |-> FALSE, name |-> << >>, payload |-> << >>, carrier |-> [kind |-> "none"]]

NoTrace == [embed |-> << >>, extract |-> << >>]

\* The phases embed passes up to its last check, in the order of the code:
\* the audio variant encrypts the payload and then builds the frame around
\* it, the text variant builds its data and then encrypts it; a carrier that
\* cannot be used is refused before any of it in the audio and video variants.
PreparePhases(c, pw, st) ==
  LET framing == CASE c.kind = "audio" /\ pw # << >> -> << "Encrypted", "Framed" >>
                   [] c.kind = "text" /\ pw # << >> -> << "Framed", "Encrypted" >>
                   [] OTHER -> << "Framed" >>
  IN  IF st = "FormatError" THEN << "Error" >>
      ELSE framing \o (IF st = "ok" THEN << >> ELSE << "Error" >>)

\* The phases extract passes: the placement, the reads, and the checks that
\* end in the result or in the error.
ExtractPhases(status) ==
  << "PlacementDerived", "Read" >>
     \o (IF status = "ok" THEN << "Validated", "Done" >> ELSE << "Error" >>)

Init ==
  /\ carrier \in Carriers
  /\ payload \in Payloads
  /\ name \in Names
  /\ password \in EmbedPasswords
  /\ pc = "idle"
  /\ bits = << >>
  /\ units = << >>
  /\ output = NoFile
  /\ embedStatus = "none"
  /\ tampered = 0
  /\ xpw = << >>
  /\ result = NoResult
  /\ info = "none"
  /\ trace = NoTrace
  /\ first = NoFirst
  /\ disk = [p \in Paths |-> NoSuchFile]
  /\ th = [t \in Served |-> IdleThread([base |-> "a", ext |-> "png"])]

\* embed up to and including its last check: the carrier is loaded, the
\* frame built (and encrypted), the capacity compared.
EmbedPrepare ==
  /\ pc = "idle"
  /\ \E r1 \in RandomBytes, r2 \in RandomBytes :
       /\ (~Encrypts(carrier, password) => r1 = [i \in 1..16 |-> 7])
       /\ (~(Encrypts(carrier, password) /\ carrier.kind = "text") => r2 = r1)
       /\ LET bs == Bitstream(carrier, payload, name, password, r1, r2)
              st == EmbedCheck(carrier, payload, name, bs)
          IN  /\ bits' = bs
              /\ embedStatus' = IF st = "ok" THEN "none" ELSE st
              /\ pc' = IF st = "ok" THEN "ready" ELSE "error"
              /\ trace' = [trace EXCEPT !.embed = PreparePhases(carrier, password, st)]
  /\ units' = LoadUnits(carrier)
  /\ UNCHANGED << carrier, payload, name, password, output, tampered, xpw, result, info >>
  /\ UNCHANGED << first, disk, th >>

\* embed's write of the bits into the units it holds.
EmbedWrite ==
  /\ pc = "ready"
  /\ units' = WriteUnits(carrier, password, bits)
  /\ IF Len(bits) <= UnitCount(carrier)
     THEN /\ pc' = "written"
          /\ trace' = [trace EXCEPT !.embed = @ \o << "PlacementDerived", "Written" >>]
          /\ UNCHANGED embedStatus
     ELSE /\ pc' = "error"
          /\ trace' = [trace EXCEPT !.embed = @ \o << "PlacementDerived", "Error" >>]
          /\ embedStatus' = "IndexError"
  /\ UNCHANGED << carrier, payload, name, password, bits, output, tampered, xpw, result,
                  info >>
  /\ UNCHANGED << first, disk, th >>

\* embed's save of the output artifact, and its return.
EmbedSave ==
  /\ pc = "written"
  /\ output' = Artifact(carrier, units)
  /\ embedStatus' = "ok"
  /\ info' = EmbedInfo(carrier, password)
  /\ trace' = [trace EXCEPT !.embed = @ \o << "Done" >>]
  /\ pc' = "saved"
  /\ UNCHANGED << carrier, payload, name, password, bits, units, tampered, xpw, result >>
  /\ UNCHANGED << first, disk, th >>

\* extract on the artifact: with any password on the artifact as embed left
\* it, with embed's password on a tampered one.
ExtractCall ==
  /\ pc = "saved"
  /\ \E pw \in Passwords :
       /\ (tampered # 0 => pw = password)
       /\ xpw' = pw
       /\ result' = Extract(output, pw)
       /\ trace' = [trace EXCEPT !.extract = ExtractPhases(Extract(output, pw).status)]
  /\ pc' = "extracted"
  /\ UNCHANGED << carrier, payload, name, password, bits, units, output,
                  embedStatus, tampered, info >>
  /\ UNCHANGED << first, disk, th >>

\* extract on a carrier file nothing was embedded in.
ExtractRaw ==
  /\ pc = "idle"
  /\ \E pw \in Passwords :
       /\ xpw' = pw
       /\ result' = Extract(carrier, pw)
       /\ trace' = [trace EXCEPT !.extract = ExtractPhases(Extract(carrier, pw).status)]
  /\ pc' = "rawextracted"
  /\ UNCHANGED << carrier, payload, name, password, bits, units, output,
                  embedStatus, tampered, info >>
  /\ UNCHANGED << first, disk, th >>

\* The bits (1-based, first and last) of the bitstream that hold the payload
\* field of the frame: in the text variant, the bits of the base64 characters
\* whose six bits are all bits of payload bytes.
PayloadField(c, payload_bytes, payload_name, pw, nbits) ==
  LET nl == Len(Utf8Encode(payload_name))
      off == (IF pw # << >> THEN GcmOverhead ELSE 0) + nl + 1
  IN  CASE c.kind = "image" ->
             [first |-> 64 + 8 * nl + 1, last |-> 64 + 8 * nl + 8 * Len(payload_bytes)]
        [] c.kind = "video" ->
             [first |-> 48 + 8 * Len(Utf8Encode(VideoPayloadName(payload_name))) + 1,
              last |-> 48 + 8 * Len(Utf8Encode(VideoPayloadName(payload_name)))
                       + 8 * Len(payload_bytes)]
        [] c.kind = "audio" -> [first |-> 64 + 8 * nl + 1, last |-> nbits]
        [] c.kind = "text" ->
             [first |-> 8 * ((8 * off + 5) \div 6) + 1,
              last |-> 8 * ((8 * (off + Len(payload_bytes))) \div 6)]

\* One unit of the artifact with its payload bit flipped.
FlipUnit(c, u, pos) ==
  CASE c.kind = "text" -> [u EXCEPT ![pos + 1] = IF u[pos + 1] = ZW1 THEN ZW0 ELSE ZW1]
    [] OTHER -> [u EXCEPT ![pos + 1] = SetLSB(u[pos + 1], 1 - (u[pos + 1] % 2))]

\* Someone flips, in the saved artifact, one bit that holds a payload bit.
Tamper ==
  /\ pc = "saved"
  /\ tampered = 0
  /\ LET field == PayloadField(carrier, payload, name, password, Len(bits))
         place == Placement(carrier, password, Len(bits))
     IN  \E t \in field.first..field.last :
           /\ t < field.first + TamperSpan \/ t > field.last - TamperSpan
           /\ tampered' = t
           /\ output' = Artifact(output, FlipUnit(output, LoadUnits(output), place[t]))
  /\ UNCHANGED << carrier, payload, name, password, pc, bits, units, embedStatus,
                  xpw, result, info, trace >>
  /\ UNCHANGED << first, disk, th >>

Next == EmbedPrepare \/ EmbedWrite \/ EmbedSave \/ Tamper \/ ExtractCall \/ ExtractRaw

Spec == Init /\ [][Next]_vars

\* -------------------------------------------------------------- properties

\* extract has returned, on the artifact as embed left it, for embed's password.
RoundTrip(kind) ==
  pc = "extracted" /\ carrier.kind = kind /\ tampered = 0 /\ xpw = password

\* C1: on an image carrier with room for the frame, extract with embed's
\* password on embed's artifact returns exactly the name and the payload that
\* were embedded, for every name (the empty one included), payload and password.
ImageRoundTrip == RoundTrip("image") => result = Ok(name, payload)

\* C2: on a video carrier whose first frame has room for the frame, extract
\* with embed's password on embed's artifact returns exactly the name and the
\* payload that were embedded, the empty name and the empty payload included.
VideoRoundTrip == RoundTrip("video") => result = Ok(name, payload)

\* C3: on a 16-bit audio carrier with at least as many samples as framed bits,
\* extract with embed's password on embed's artifact returns exactly the name
\* and the payload that were embedded, with and without encryption.
AudioRoundTrip == RoundTrip("audio") => result = Ok(name, payload)

\* An encrypted, non-empty payload under a non-empty name came back from audio.
AudioRoundTripWitness ==
  /\ RoundTrip("audio")
  /\ password # << >>
  /\ payload # << >>
  /\ name # << >>
  /\ result = Ok(name, payload)

\* C4: on every visible text, extract with embed's password on embed's
\* artifact returns exactly the name and the payload that were embedded, for
\* every name (one holding a NUL character included) and payload.
TextRoundTrip == RoundTrip("text") => result = Ok(name, payload)

\* C5: in every variant, extract with a password other than embed's (empty
\* against non-empty and the reverse included) fails: it never ends with a
\* successful result. Every error extract can raise counts as the failure.
WrongPasswordRejected ==
  (pc = "extracted" /\ tampered = 0 /\ xpw # password) => result.status # "ok"

\* C6: in every variant, after one bit that holds a payload bit was flipped in
\* the artifact of a successful embed, extract with embed's password fails: it
\* never ends with a successful result. Every error counts as the failure.
TamperDetected ==
  (pc = "extracted" /\ tampered # 0 /\ xpw = password) => result.status # "ok"

\* The valid capacity of an index-addressed carrier: the colour bytes of the
\* pixels whose alpha is not zero, the samples, the blue bytes of frame 0.
ValidCapacity(c) ==
  CASE c.kind = "image" ->
         3 * Cardinality({px \in 1..(Len(c.flat) \div 3) : ~c.hasAlpha \/ c.alpha[px] # 0})
    [] c.kind = "audio" -> Len(c.samples)
    [] c.kind = "video" -> Len(c.blue)

\* The carrier is index-addressed and decodable: 16-bit audio, a video with a
\* first frame, any image.
IndexAddressed(c) ==
  \/ c.kind = "image"
  \/ c.kind = "audio" /\ c.int16
  \/ c.kind = "video" /\ c.hasFrame0

\* C7: on an image, audio or video carrier, embed passes its checks when the
\* bitstream is no longer than the valid capacity (exactly as long included)
\* and fails with CapacityError when it is longer (one bit longer included);
\* for an image the valid capacity counts the colour bytes of the pixels
\* whose alpha is not zero only.
CapacityBoundary ==
  (pc # "idle" /\ IndexAddressed(carrier)) =>
     IF Len(bits) <= ValidCapacity(carrier)
     THEN pc # "error" /\ embedStatus \in {"none", "ok"}
     ELSE pc = "error" /\ embedStatus = "CapacityError"

\* An embed whose bitstream fills an image with transparent pixels exactly
\* was saved.
CapacityBoundaryWitness ==
  /\ pc = "saved"
  /\ carrier.kind = "image"
  /\ carrier.hasAlpha
  /\ \E px \in 1..Len(carrier.alpha) : carrier.alpha[px] = 0
  /\ Len(bits) = ValidCapacity(carrier)
  /\ embedStatus = "ok"

\* C8: in every variant an embed that failed has written no unit and has
\* created no output artifact: every check precedes the first write.
AllOrNothing ==
  pc = "error" => units = LoadUnits(carrier) /\ output = NoFile

\* An embed failed on the capacity check with a bitstream one bit too long.
AllOrNothingWitness ==
  /\ pc = "error"
  /\ embedStatus = "CapacityError"
  /\ IndexAddressed(carrier)
  /\ Len(bits) = ValidCapacity(carrier) + 1

\* The sequence holds every index of [0, n) exactly once.
IsBijection(perm, n) ==
  /\ Len(perm) = n
  /\ {perm[i] : i \in 1..n} = 0..(n - 1)

\* The permutation embed draws, and the one extract draws on the artifact.
EmbedPerm(c, pw) ==
  IF c.kind = "image" THEN ImageEmbedPerm(c, pw) ELSE VideoEmbedPerm(c, pw)
ExtractPerm(c, pw) ==
  IF c.kind = "image" THEN ImageExtractPerm(c, pw) ELSE VideoExtractPerm(c, pw)

\* C9: in the permuted variants (image, video) the order embed draws holds
\* every index below the valid capacity exactly once, so no two bits of the
\* bitstream go to the same unit; the order extract draws is such an order for
\* every password, and for embed's password it is embed's order.
PermutationAgreement ==
  (pc \in {"written", "saved", "extracted"} /\ carrier.kind \in {"image", "video"}) =>
     LET n == ValidCapacity(carrier)
         place == Placement(carrier, password, Len(bits))
     IN  /\ IsBijection(EmbedPerm(carrier, password), n)
         /\ \A i, j \in 1..Len(bits) : place[i] = place[j] => i = j
         /\ pc = "extracted" =>
              /\ IsBijection(ExtractPerm(output, xpw), n)
              /\ xpw = password =>
                   ExtractPerm(output, xpw) = EmbedPerm(carrier, password)

\* extract ran with embed's non-empty password on an image with transparent
\* pixels, and the order both drew is not the identity.
PermutationAgreementWitness ==
  /\ pc = "extracted"
  /\ carrier.kind = "image"
  /\ carrier.hasAlpha
  /\ xpw = password
  /\ password # << >>
  /\ result.status = "ok"
  /\ \E i \in 1..ValidCapacity(carrier) : EmbedPerm(carrier, password)[i] # i - 1

\* The pixels of an image whose alpha is exactly zero.
Transparent(c) == {px \in 1..Len(c.alpha) : c.alpha[px] = 0}

\* C10: after a successful embed on an image with an alpha channel, the three
\* colour bytes of every pixel whose alpha is zero are what they were.
AlphaExclusion ==
  (pc \in {"written", "saved", "extracted"} /\ carrier.kind = "image" /\ carrier.hasAlpha) =>
     \A px \in Transparent(carrier) : \A k \in (3 * px - 2)..(3 * px) :
        /\ units[k] = carrier.flat[k]
        /\ pc # "written" => output.flat[k] = carrier.flat[k]

\* An embed that changed colour bytes of an image with transparent pixels
\* was saved.
AlphaExclusionWitness ==
  /\ pc = "saved"
  /\ tampered = 0
  /\ carrier.kind = "image"
  /\ carrier.hasAlpha
  /\ Transparent(carrier) # {}
  /\ output.flat # carrier.flat

\* The seed embed draws its placement with, and the seed extract draws with.
EmbedSeed(c, pw) ==
  IF c.kind = "image" THEN ImageSeedFromPassword(pw) ELSE VideoSeed(pw)
ExtractSeed(c, pw) ==
  IF c.kind = "image" THEN ImageSeedFromPassword(pw) ELSE VideoSeed(pw)

\* C11: in the seeded variants (image, video) the seed embed used is 0 for
\* the empty password and the leading bytes of the SHA-256 of the password's
\* UTF-8 bytes otherwise, and extract derives the same seed from the same
\* password.
SeedDerivation ==
  (pc \in {"written", "saved", "extracted"} /\ carrier.kind \in {"image", "video"}) =>
     /\ EmbedSeed(carrier, password) =
          IF password = << >> THEN 0 ELSE Sha256(Utf8Encode(password))
     /\ (pc = "extracted" /\ xpw = password) =>
          ExtractSeed(output, xpw) = EmbedSeed(carrier, password)

\* embed built its frame and passed its checks.
Framed == pc \in {"ready", "written", "saved", "extracted"}

\* The bytes embed stores in the carrier: the packed bitstream, in the text
\* variant the bytes its base64 text stands for.
StoredBytes ==
  IF carrier.kind = "text" THEN B64Decode(FromBits(bits)).data ELSE PackBits(bits)

\* The frame embed built, in clear: the stored bytes, decrypted with embed's
\* password where embed encrypted all of them (text).
ClearFrame ==
  IF carrier.kind = "text" /\ password # << >>
  THEN TextDecrypt(StoredBytes, password).data
  ELSE StoredBytes

\* C12: in every variant the frame embed stores ends with the four big-endian
\* bytes of the CRC32 of the unencrypted payload.
FrameChecksum ==
  Framed => /\ Len(ClearFrame) >= 4
            /\ Slice(ClearFrame, Len(ClearFrame) - 4, Len(ClearFrame)) = Crc32Bytes(payload)

\* C13: in the length-prefixed variants (image, audio, video) extract rejects
\* a header only when its nameLen is above 10 KiB or its payloadLen is above
\* 200 MiB: on the artifact of an embed, whose name and payload are far below
\* both bounds (the empty payload, payloadLen 0, included), extract with
\* embed's password does not end in a format error.
HeaderSanityBounds ==
  (/\ pc = "extracted"
   /\ carrier.kind \in {"image", "audio", "video"}
   /\ tampered = 0
   /\ xpw = password
   /\ Len(Utf8Encode(name)) <= ImageNameCap
   /\ Len(payload) <= ImagePayloadCap) => result.status # "FormatError"

\* extract has returned, and the file it read.
Extracted == pc \in {"extracted", "rawextracted"}
ExtractedFile == IF pc = "extracted" THEN output ELSE carrier

\* The header lengths extract read from the file.
HeaderRead ==
  CASE carrier.kind = "image" -> ImageHeader(ExtractedFile, xpw)
    [] carrier.kind = "video" -> VideoHeader(ExtractedFile, xpw)
    [] carrier.kind = "audio" -> AudioHeader(ExtractedFile)

\* C14: extract never succeeds with a payload shorter than the payload length
\* of the header it read (variants with a length field; audio read without
\* decryption, where the payload returned is the payload field itself).
NoPartialResult ==
  (/\ Extracted
   /\ result.status = "ok"
   /\ carrier.kind \in {"image", "video", "audio"}
   /\ carrier.kind = "audio" => xpw = << >>) =>
     Len(result.payload) >= HeaderRead.payload_len

\* C15: extract on a carrier nothing was embedded in never succeeds, whatever
\* the carrier holds (units whose least significant bits are all zero
\* included). Every error extract can raise counts as the rejection.
NonStegoRejected == pc = "rawextracted" => result.status # "ok"

\* s ends with t.
EndsWith(s, t) == Len(s) >= Len(t) /\ Slice(s, Len(s) - Len(t), Len(s)) = t

\* The payload field of the audio frame as stored, and the data of the text
\* frame in clear.
AudioStoredPayload == Slice(StoredBytes, 8 + Len(Utf8Encode(name)), Len(StoredBytes))
TextPlainData == Utf8Encode(Append(name, 0)) \o payload

\* The text holds no zero-width character of its own.
NoZeroWidth(text) == \A i \in 1..Len(text) : text[i] \notin {ZW0, ZW1, ZWS}

\* C16: in the encrypting variants (audio, text) embed reports encrypted
\* exactly when the password is not empty; what it stores is then ciphertext
\* that decrypts to the plaintext under the password, and the plaintext itself
\* otherwise; extract decrypts exactly when its password is not empty.
EncryptionIffPassword ==
  (pc \in {"saved", "extracted"} /\ tampered = 0 /\ carrier.kind \in {"audio", "text"}) =>
     /\ info = (IF password # << >> THEN "true" ELSE "false")
     /\ carrier.kind = "audio" =>
          /\ password = << >> => AudioStoredPayload = payload
          /\ password # << >> =>
               /\ AudioStoredPayload # payload
               /\ AudioDecrypt(AudioStoredPayload, password) = [ok |-> TRUE, data |-> payload]
          /\ (pc = "extracted" /\ xpw = << >>) =>
               result.status = "ok" /\ result.payload = AudioStoredPayload
          /\ (pc = "extracted" /\ xpw # << >>) =>
               IF AudioDecrypt(AudioStoredPayload, xpw).ok
               THEN result.status = "ok"
                    /\ result.payload = AudioDecrypt(AudioStoredPayload, xpw).data
               ELSE result.status = "CryptoError"
     /\ carrier.kind = "text" =>
          /\ password = << >> => StoredBytes = TextPlainData
          /\ password # << >> =>
               /\ StoredBytes # TextPlainData
               /\ TextDecrypt(StoredBytes, password) = [ok |-> TRUE, data |-> TextPlainData]
          /\ (pc = "extracted" /\ xpw = << >> /\ result.status = "ok") =>
               EndsWith(StoredBytes, result.payload)
          /\ (pc = "extracted" /\ xpw # << >> /\ NoZeroWidth(carrier.text)) =>
               IF TextDecrypt(StoredBytes, xpw).ok
               THEN result.status = "ok"
                    /\ EndsWith(TextDecrypt(StoredBytes, xpw).data, result.payload)
               ELSE result.status = "CryptoError"

\* extract decrypted what an audio embed had encrypted under a password.
EncryptionIffPasswordWitness ==
  /\ pc = "extracted"
  /\ carrier.kind = "audio"
  /\ tampered = 0
  /\ password # << >>
  /\ xpw = password
  /\ info = "true"
  /\ payload # << >>
  /\ result.payload = payload

\* What decrypting everything the carrier stores gives under the password.
StoredDecrypted ==
  IF carrier.kind = "audio" THEN AudioDecrypt(StoredBytes, password)
  ELSE TextDecrypt(StoredBytes, password)

\* The name fields that open the frame, in clear.
PlainHeader ==
  IF carrier.kind = "audio"
  THEN ToBytes4(Len(Utf8Encode(name))) \o Utf8Encode(name)
  ELSE Utf8Encode(Append(name, 0))

\* C17: when an encrypting variant (audio, text) embeds with a non-empty
\* password, the whole frame is encrypted: what the carrier stores decrypts
\* to the frame, name and payload included, and the name fields
\* are not stored in clear at the head of the stored bytes.
WholeBlobEncrypted ==
  (Framed /\ carrier.kind \in {"audio", "text"} /\ password # << >>) =>
     /\ StoredDecrypted.ok
     /\ EndsWith(StoredDecrypted.data, payload)
     /\ Slice(StoredBytes, 0, Len(PlainHeader)) # PlainHeader

\* C18: a successful video embed changes only least-significant bits of the
\* blue bytes of the first frame: the other channels of the first frame and
\* every later frame are written as they were read, in the same order and
\* with the same count.
VideoFrameEffect ==
  (pc \in {"saved", "extracted"} /\ tampered = 0 /\ carrier.kind = "video") =>
     /\ Len(output.blue) = Len(carrier.blue)
     /\ \A i \in 1..Len(carrier.blue) : output.blue[i] \div 2 = carrier.blue[i] \div 2
     /\ output.others = carrier.others
     /\ output.rest = carrier.rest

\* a video embed that changed blue bytes of a carrier with later frames.
VideoFrameEffectWitness ==
  /\ pc = "saved"
  /\ carrier.kind = "video"
  /\ tampered = 0
  /\ payload # << >>
  /\ output.blue # carrier.blue
  /\ Len(carrier.rest) >= 2

\* C19: the output of a text embed is the original text unchanged, then one
\* zero-width code point per bit of the bitstream in bit order (U+200B for 0,
\* U+200C for 1), then exactly one separator U+200D as the final character;
\* the separator never occurs inside the bit sequence.
TextLayout ==
  (pc \in {"saved", "extracted"} /\ tampered = 0 /\ carrier.kind = "text") =>
     LET n == Len(carrier.text)
         out == output.text
     IN /\ Len(out) = n + Len(bits) + 1
        /\ \A i \in 1..n : out[i] = carrier.text[i]
        /\ \A i \in 1..Len(bits) :
             /\ bits[i] = 0 => out[n + i] = 8203
             /\ bits[i] = 1 => out[n + i] = 8204
             /\ out[n + i] # 8205
        /\ out[Len(out)] = 8205

\* a text embed that appended both kinds of bit to a visible text.
TextLayoutWitness ==
  /\ pc = "saved"
  /\ carrier.kind = "text"
  /\ tampered = 0
  /\ carrier.text # << >>
  /\ \E i, j \in 1..Len(bits) : bits[i] = 0 /\ bits[j] = 1
  /\ Len(output.text) > Len(carrier.text) + 8

\* ---- The server under concurrent requests ----

\* Some carriers have been uploaded and one of them has been extracted from;
\* no request is being served.
InitServer ==
  /\ carrier = [kind |-> "text", text |-> << >>]
  /\ payload = << >>
  /\ name = << >>
  /\ password = << >>
  /\ pc = "idle"
  /\ bits = << >>
  /\ units = << >>
  /\ output = NoFile
  /\ embedStatus = "none"
  /\ tampered = 0
  /\ xpw = << >>
  /\ result = NoResult
  /\ info = "none"
  /\ trace = NoTrace
  /\ first = NoFirst
  /\ \E f1 \in Uploads : \E f2 \in Uploads :
       /\ disk = [p \in Paths |-> IF p \in {f1, f2} THEN CarrierFile(p) ELSE NoSuchFile]
       /\ th = [t \in Served |-> IF t = Earlier THEN EarlierExtract(f1) ELSE IdleThread(f1)]

\* A thread takes a request: the route and the file name the client sent.
Request(t) ==
  /\ th[t].pc \in {"idle", "done"}
  /\ th[t].n < MaxRequests
  /\ \E kind \in {"upload", "embed", "extract"}, fname \in Uploads :
       th' = [th EXCEPT ![t] = [pc |-> "received", kind |-> kind, fname |-> fname,
                                path |-> fname, pos |-> 0, i |-> 1, n |-> @.n + 1,
                                status |-> "none", outcome |-> NoOutcome]]
  /\ UNCHANGED disk
  /\ UNCHANGED evars

\* /upload: one test of save_path.exists(); a taken name moves on to the next.
UploadProbe(t) ==
  /\ th[t].pc = "received"
  /\ th[t].kind = "upload"
  /\ IF disk[th[t].path].exists
     THEN /\ th[t].i <= 2 * MaxRequests
          /\ th' = [th EXCEPT ![t].path = Dedup(th[t].fname, th[t].i), ![t].i = @ + 1]
     ELSE th' = [th EXCEPT ![t].pc = "saving"]
  /\ UNCHANGED disk
  /\ UNCHANGED evars

\* /upload: f.save(save_path) and the response.
UploadSave(t) ==
  /\ th[t].pc = "saving"
  /\ disk' = [disk EXCEPT ![th[t].path] = UploadedFile(th[t].fname, t)]
  /\ th' = [th EXCEPT ![t].pc = "done", ![t].status = "ok"]
  /\ UNCHANGED evars

\* /embed and /extract: the file is not there, 404.
ServerNotFound(t) ==
  /\ th[t].pc = "received"
  /\ th[t].kind \in {"embed", "extract"}
  /\ ~ disk[th[t].fname].exists
  /\ th' = [th EXCEPT ![t].pc = "done", ![t].status = "not found"]
  /\ UNCHANGED disk
  /\ UNCHANGED evars

\* /embed up to the call of the plugin and the plugin's choice of its path.
ServerEmbedStart(t) ==
  /\ th[t].pc = "received"
  /\ th[t].kind = "embed"
  /\ disk[th[t].fname].exists
  /\ th' = [th EXCEPT ![t].pc = "started", ![t].path = PluginOutfile(th[t].fname)]
  /\ UNCHANGED disk
  /\ UNCHANGED evars

\* The plugin raises before it opens its output: /embed answers 500.
PluginRaise(t) ==
  /\ th[t].pc = "started"
  /\ th' = [th EXCEPT ![t].pc = "done", ![t].status = "error"]
  /\ UNCHANGED disk
  /\ UNCHANGED evars

\* The plugin's writer opens its path: the file is created or cut to nothing.
WriterOpen(t) ==
  /\ th[t].pc = "started"
  /\ disk' = [disk EXCEPT ![th[t].path] = [exists |-> TRUE, data |-> << >>]]
  /\ th' = [th EXCEPT ![t].pc = "writing", ![t].pos = 0]
  /\ UNCHANGED evars

\* The writer writes its next block at its own offset.
WriterWrite(t) ==
  /\ th[t].pc = "writing"
  /\ th[t].pos < ArtifactChunks
  /\ disk' = [disk EXCEPT ![th[t].path] =
                WriteAt(@, th[t].pos, Chunk(th[t].fname, th[t].pos + 1))]
  /\ th' = [th EXCEPT ![t].pos = @ + 1]
  /\ UNCHANGED evars

\* The writer closes the file and /embed returns.
WriterClose(t) ==
  /\ th[t].pc = "writing"
  /\ th[t].pos = ArtifactChunks
  /\ th' = [th EXCEPT ![t].pc = "done", ![t].status = "ok"]
  /\ UNCHANGED disk
  /\ UNCHANGED evars

\* /extract: the plugin reads the file and the payload is sent from memory.
ServerExtract(t) ==
  /\ th[t].pc = "received"
  /\ th[t].kind = "extract"
  /\ disk[th[t].fname].exists
  /\ disk' = ExtractEffect(disk, th[t].fname)
  /\ th' = [th EXCEPT ![t].pc = "done", ![t].status = "ok",
                      ![t].outcome = ExtractOutcome(disk[th[t].fname])]
  /\ UNCHANGED evars

NextServer ==
  \/ \E t \in Threads : Request(t)
  \/ \E t \in Threads : UploadProbe(t)
  \/ \E t \in Threads : UploadSave(t)
  \/ \E t \in Threads : ServerNotFound(t)
  \/ \E t \in Threads : ServerEmbedStart(t)
  \/ \E t \in Threads : PluginRaise(t)
  \/ \E t \in Threads : WriterOpen(t)
  \/ \E t \in Threads : WriterWrite(t)
  \/ \E t \in Threads : WriterClose(t)
  \/ \E t \in Threads : ServerExtract(t)

SpecServer == InitServer /\ [][NextServer]_vars

\* Thread t has served an embed request to its successful end.
Embedded(t) == th[t].kind = "embed" /\ th[t].pc = "done" /\ th[t].status = "ok"

\* C20: two concurrent embeds on different carrier files do not interfere:
\* they never write the same output path, and when both have returned each
\* one's output artifact is what the embed leaves when it runs alone.
ConcurrentEmbedsIndependent ==
  \A t1 \in Threads : \A t2 \in Threads \ {t1} :
    (th[t1].kind = "embed" /\ th[t2].kind = "embed" /\ th[t1].fname # th[t2].fname) =>
      /\ (th[t1].pc \in {"started", "writing"} /\ th[t2].pc \in {"started", "writing"})
           => th[t1].path # th[t2].path
      /\ (Embedded(t1) /\ Embedded(t2)) => disk[th[t1].path] = SoloArtifact(th[t1].fname)

\* Thread t takes a step of the embed request it is serving.
EmbedStep(t) == th[t].kind = "embed" /\ th[t].pc \in {"received", "started", "writing"}
                /\ th'[t] # th[t]

UploadNeverOverwrites ==
  [][\A t \in Threads :
       (th[t].kind = "upload" /\ th[t].pc = "saving" /\ th'[t].pc = "done")
         => /\ ~ disk[th[t].path].exists
            /\ \A p \in Paths : disk[p].exists => disk'[p] = disk[p]]_vars

\* The file was stored by an upload request.
IsUploaded(file) == file.exists /\ \E k \in 1..Len(file.data) : file.data[k].k = 0 /\ file.data[k] # Hole

\* The file holds blocks of the output of an embed on a carrier other than fname.
IsOutputOfOther(file, fname) ==
  file.exists /\ \E k \in 1..Len(file.data) : file.data[k].k >= 1 /\ file.data[k].of # fname

\* C29: the output artifact /embed writes never replaces a file stored by an
\* upload request nor the output of an embed on a different carrier.
EmbedNeverDestroys ==
  [][\A t \in Threads :
       (th[t].kind = "embed" /\ th[t].pc = "started" /\ th'[t].pc = "writing")
         => /\ ~ IsUploaded(disk[th[t].path])
            /\ ~ IsOutputOfOther(disk[th[t].path], th[t].fname)]_vars

\* Request t is an extract served to its end.
Extracted28(t) == th[t].kind = "extract" /\ th[t].pc = "done" /\ th[t].status = "ok"

\* C28: extract is read-only and repeatable: serving an extract request
\* changes no file and creates none, and all extract requests served for the
\* same carrier file return the same outcome, whatever requests for other
\* carriers were served in between.
ExtractRepeatable ==
  /\ [](\A t1 \in Served : \A t2 \in Served :
          (Extracted28(t1) /\ Extracted28(t2) /\ th[t1].fname = th[t2].fname)
            => th[t1].outcome = th[t2].outcome)
  /\ [][\A t \in Threads :
          (th[t].kind = "extract" /\ th[t].pc = "received" /\ th'[t] # th[t])
            => disk' = disk]_vars

\* The place of a phase in the order of the state machine; Done and Error end it.
EmbedRank(ph) ==
  CASE ph = "Framed" -> 1 [] ph = "Encrypted" -> 2 [] ph = "PlacementDerived" -> 3
    [] ph = "Written" -> 4 [] OTHER -> 5

ExtractRank(ph) ==
  CASE ph = "PlacementDerived" -> 1 [] ph = "Read" -> 2 [] ph = "Validated" -> 3
    [] OTHER -> 4

InTrace(ph, tr) == \E i \in 1..Len(tr) : tr[i] = ph

\* C22: every embed passes framing, then (optional) encryption, then the
\* placement, then the write, in that order, every extract the placement,
\* the reads, then validation; Error and Done end the run: after an error
\* no artifact is written and no result returned, and a result is returned
\* only after validation.
PhaseOrdering ==
  /\ \A i \in 1..Len(trace.embed) : \A j \in 1..Len(trace.embed) :
       i < j => EmbedRank(trace.embed[i]) < EmbedRank(trace.embed[j])
  /\ \A i \in 1..Len(trace.extract) : \A j \in 1..Len(trace.extract) :
       i < j => ExtractRank(trace.extract[i]) < ExtractRank(trace.extract[j])
  /\ InTrace("Written", trace.embed) =>
       InTrace("Framed", trace.embed) /\ InTrace("PlacementDerived", trace.embed)
  /\ InTrace("Error", trace.embed) => output = NoFile /\ result = NoResult
  /\ result.status = "ok" => InTrace("Validated", trace.extract)
  /\ InTrace("Error", trace.extract) => result.status \notin {"ok", "none"}

\* The least significant bits of the file's units in the order of the
\* placement extract derives: bit k of the frame is element k.
PlacedBits ==
  CASE carrier.kind = "image" ->
         ReadLSBs(ExtractedFile.flat,
                  Take(ImageAvailablePositions(ExtractedFile), ImageExtractPerm(ExtractedFile, xpw)))
    [] carrier.kind = "video" ->
         ReadLSBs(ExtractedFile.blue, VideoExtractPerm(ExtractedFile, xpw))
    [] carrier.kind = "audio" ->
         [i \in 1..Len(ExtractedFile.samples) |-> ExtractedFile.samples[i] % 2]

\* The cursor where the payload field starts and where the declared frame
\* ends, by the widths of the fields and the lengths the header declares.
\* (A declared length counts up to one more than the units there are: the
\* frame then ends beyond the capacity whatever the length is.)
Declared(n) == Min(n, Len(PlacedBits) + 1)
PayloadStart ==
  (IF carrier.kind = "video" THEN 16 ELSE 32) + 8 * Declared(HeaderRead.name_len) + 32
DeclaredEnd ==
  PayloadStart + 8 * Declared(HeaderRead.payload_len)
    + (IF carrier.kind = "audio" THEN 0 ELSE 32)

\* C24: extract reads the fields one after the other, each exactly as wide as
\* declared, and never beyond the capacity: a frame whose declared end lies
\* beyond the capacity ends in an error, and the payload of a result is the
\* declared number of bits from the cursor of the payload field (audio: read
\* without decryption).
SequentialBoundedExtraction ==
  (Extracted /\ carrier.kind \in {"image", "video", "audio"}) =>
     /\ DeclaredEnd > Len(PlacedBits) => result.status # "ok"
     /\ (result.status = "ok" /\ DeclaredEnd <= Len(PlacedBits)
         /\ (carrier.kind = "audio" => xpw = << >>)) =>
          result.payload
            = PackBits(SubSeq(PlacedBits, PayloadStart + 1,
                              PayloadStart + 8 * HeaderRead.payload_len))

\* C30: in the index-addressed variants (image, audio, video) a header that
\* declares a frame of more bits than the carrier has units ends extract in
\* an error: a result is returned only for a declared frame that fits, and
\* its payload has all the declared bytes (audio: read without decryption).
DeclaredLengthWithinCapacity ==
  (Extracted /\ carrier.kind \in {"image", "video", "audio"} /\ result.status = "ok") =>
     /\ DeclaredEnd <= UnitCount(ExtractedFile)
     /\ (carrier.kind = "audio" => xpw = << >>) =>
          Len(result.payload) = HeaderRead.payload_len

\* C25: a successful image embed of an n-bit bitstream changes at most bit 0
\* of exactly the n colour bytes the first n permutation entries select, and
\* stores bit k there; the upper seven bits of every colour byte, every
\* colour byte not selected and every alpha byte are as in the input.
ImageLsbOnly ==
  (pc \in {"saved", "extracted"} /\ tampered = 0 /\ carrier.kind = "image") =>
     LET n == Len(bits)
         avail == ImageAvailablePositions(carrier)
         perm == ImageEmbedPerm(carrier, password)
         at(k) == avail[perm[k] + 1] + 1
         selected == {at(k) : k \in 1..n}
     IN  /\ Cardinality(selected) = n
         /\ Len(output.flat) = Len(carrier.flat)
         /\ \A p \in 1..Len(carrier.flat) :
              /\ output.flat[p] \div 2 = carrier.flat[p] \div 2
              /\ p \notin selected => output.flat[p] = carrier.flat[p]
         /\ \A k \in 1..n : output.flat[at(k)] % 2 = bits[k]
         /\ output.alpha = carrier.alpha
         /\ output.hasAlpha = carrier.hasAlpha

\* an image embed that changed colour bytes and left others as they were.
ImageLsbOnlyWitness ==
  /\ pc = "saved"
  /\ tampered = 0
  /\ carrier.kind = "image"
  /\ Len(bits) >= 72
  /\ Len(bits) < Len(carrier.flat)
  /\ output.flat # carrier.flat

\* C27: on a visible text that itself holds U+200B, U+200C or U+200D, extract
\* with embed's password on embed's artifact still returns the name and the
\* payload that were embedded (for a name without a NUL, which a text without
\* such characters returns): the text's own zero-width characters are read
\* neither as bits nor as the terminator.
TextOwnZeroWidthIgnored ==
  (/\ RoundTrip("text")
   /\ ~ NoZeroWidth(carrier.text)
   /\ \A i \in 1..Len(name) : name[i] # 0) =>
     result = Ok(name, payload)

\* ---- One embed after another into the same carrier ----

\* The artifact of a successful embed is used as the carrier of a second
\* embed, of another name and payload with the same password.
EmbedAgain ==
  /\ pc = "saved"
  /\ tampered = 0
  /\ ~ first.embedded
  /\ first' = [embedded |-> TRUE, name |-> name, payload |-> payload, carrier |-> carrier]
  /\ carrier' = output
  /\ payload' \in Payloads
  /\ name' \in Names
  /\ pc' = "idle"
  /\ bits' = << >>
  /\ units' = << >>
  /\ output' = NoFile
  /\ embedStatus' = "none"
  /\ info' = "none"
  /\ trace' = NoTrace
  /\ UNCHANGED << password, tampered, xpw, result, disk, th >>

NextTwice == EmbedPrepare \/ EmbedWrite \/ EmbedSave \/ EmbedAgain \/ ExtractCall

SpecTwice == Init /\ [][NextTwice]_vars

\* A name and a payload that extract returns as they are after one embed:
\* not empty, the name without a NUL.
Plain(n, p) == n # << >> /\ p # << >> /\ \A i \in 1..Len(n) : n[i] # 0

\* C26: the last embed wins: after an embed of (P1, n1) and then an embed of
\* (P2, n2) with the same password into the artifact of the first, extract
\* with that password returns (n2, P2), not (n1, P1) and not an error (for
\* names and payloads that one embed returns as they are, and a first
\* carrier text without zero-width characters of its own).
LastEmbedWins ==
  (/\ first.embedded
   /\ RoundTrip(carrier.kind)
   /\ Plain(name, payload)
   /\ Plain(first.name, first.payload)
   /\ carrier.kind = "text" => NoZeroWidth(first.carrier.text)) =>
     result = Ok(name, payload)

====
